---- MODULE Spec2Model ----
(***************************************************************************)
(* Model of ManiSkill/AgentEval.py: a single-episode evaluation script.    *)
(* The script resets a simulated environment, opens one video writer per   *)
(* camera of the reset observation, and then loops: build the policy input *)
(* from the current observation, query the policy, rescale the action,     *)
(* step the environment, append one frame per camera, update `done`.       *)
(* After the loop it prints Success!/Failure! and closes the writers.      *)
(*                                                                         *)
(* The environment, the policy and the video writers are external          *)
(* collaborators.  They are modelled by what the script observes of them:  *)
(*   - the environment keeps an elapsed-step counter, returns the same     *)
(*     sensor set in every observation, may signal `terminated` at any     *)
(*     step and signals `truncated` once the elapsed steps reach           *)
(*     max_episode_steps (the cap handed to gym.make);                     *)
(*   - the policy returns an arbitrary action from a small set;            *)
(*   - any of the external calls inside the loop may raise.                *)
(* Real numbers are exact rationals <<numerator, denominator>>; floating   *)
(* point rounding is outside the model.                                    *)
(***************************************************************************)
EXTENDS Integers, Sequences, FiniteSets, TLC

VARIABLES
    pc,               \* position of the script
    env_elapsed,      \* the environment's elapsed-step counter
    env_sensors,      \* the environment's configured cameras, in dict order
    raw_observation,  \* [id, sensor_data]: id 0 is the reset observation,
                      \* id n the observation returned by the n-th env.step
    camera_uids,      \* line 94
    writers,          \* uid -> [path, open, frames, closes, late]
    opened,           \* the uids imageio.get_writer was called for, in order
    i,                \* index of the for loop in progress
    step, done, terminated, truncated,
    rewards,          \* len(rewards)
    action,           \* the action tensor after rescaling (lines 155-157)
    policy_queries,   \* number of policy.select_action calls
    batch_obs,        \* id of the observation the current batch was built from
    query_obs,        \* id of the observation behind the latest policy query
    first_flag,       \* index of the first env.step that returned a flag, or 0
    printed,          \* the final messages printed, in order
    failed,           \* "none", or the operation that raised
    scale             \* state of the action-scaling harness (ScaleSpec)

vars == <<pc, env_elapsed, env_sensors, raw_observation, camera_uids, writers,
          opened, i, step, done, terminated, truncated, rewards, action,
          policy_queries, batch_obs, query_obs, first_flag, printed, failed,
          scale>>

----------------------------------------------------------------------------
(* Bounds of the model *)

\* env.step is modelled for this many steps past the episode cap
StepSlack == 2
\* action components of the scaling harness range over -MaxAct..MaxAct
MaxAct == 1
\* scalar factors of the linearity check range over -MaxK..MaxK
MaxK == 2

----------------------------------------------------------------------------
(* Program constants *)

max_episode_steps == 500

RequiredCameras == {"top_camera", "side_camera", "wrist_camera"}

\* Sensor configurations of the environment, in observation-dict order.
SensorConfigs ==
    { <<"top_camera", "side_camera", "wrist_camera">>,
      <<"wrist_camera", "front_camera", "top_camera", "side_camera">>,
      <<"top_camera", "side_camera">> }

Range(s) == {s[n] : n \in 1..Len(s)}

----------------------------------------------------------------------------
(* Exact rational arithmetic *)

RECURSIVE GCD(_, _)
GCD(a, b) == IF b = 0 THEN a ELSE GCD(b, a % b)

Abs(n) == IF n < 0 THEN -n ELSE n

Rat(n, d) ==
    LET s == IF d < 0 THEN -1 ELSE 1
        g == GCD(Abs(n), Abs(d))
    IN  <<(s * n) \div g, (s * d) \div g>>

RatMul(p, q) == Rat(p[1] * q[1], p[2] * q[2])
RatAdd(p, q) == Rat(p[1] * q[2] + q[1] * p[2], p[2] * q[2])

VAdd(a, b) == [n \in 1..Len(a) |-> RatAdd(a[n], b[n])]
VMul(k, a) == [n \in 1..Len(a) |-> RatMul(Rat(k, 1), a[n])]
Const(len, c) == [n \in 1..len |-> Rat(c, 1)]
Unit(len, m, c) == [n \in 1..len |-> IF n = m THEN Rat(c, 1) ELSE Rat(0, 1)]
IsZero(a) == \A n \in 1..Len(a) : a[n] = <<0, 1>>

----------------------------------------------------------------------------
(* Action scaling, lines 156-157 *)

TRANS_SCALE == Rat(5, 100)   \* 0.05
ROT_SCALE == Rat(2, 10)      \* 0.2

ScaleAction_Offset(a) ==
    [n \in 1..Len(a) |->
        IF n <= 3 THEN RatAdd(a[n], TRANS_SCALE)
        ELSE IF n <= 6 THEN RatAdd(a[n], ROT_SCALE)
        ELSE a[n]]

ScaleAction(a) ==
    [n \in 1..Len(a) |->
        IF n <= 3 THEN RatMul(a[n], TRANS_SCALE)
        ELSE IF n <= 6 THEN RatMul(a[n], ROT_SCALE)
        ELSE a[n]]

\* What policy.select_action may return in the rollout model.
PolicyOutputs == {Const(6, 0), Const(6, 1)}

----------------------------------------------------------------------------
(* The script's own steps, as operators *)

\* line 94
CameraUids_Hardcoded(obs) == <<"top_camera", "side_camera", "wrist_camera">>

CameraUids(obs) == obs.sensor_data

\* lines 96-97
VideoPath(uid) == <<"videos", uid, "mp4">>

OpenWriter_WithResetFrame(uid) ==
    [path |-> VideoPath(uid), open |-> TRUE, frames |-> 1, closes |-> 0, late |-> 0]

OpenWriter(uid) ==
    [path |-> VideoPath(uid), open |-> TRUE, frames |-> 0, closes |-> 0, late |-> 0]

\* line 176: a frame reaches the file only while the writer is open
AppendData(w) ==
    IF w.open THEN [w EXCEPT !.frames = @ + 1] ELSE [w EXCEPT !.late = @ + 1]

\* line 190
CloseWriter_Forgotten(w) == w

CloseWriter(w) == [w EXCEPT !.open = FALSE, !.closes = @ + 1]

\* line 167: the name the returned observation is bound to
NextObservation_Stale(current, returned) == current

NextObservation(current, returned) == returned

\* line 180
DoneUpdate_NoTruncation(term, trunc, d) == term \/ d

DoneUpdate_Both(term, trunc, d) == (term /\ trunc) \/ d

DoneUpdate(term, trunc, d) == term \/ trunc \/ d

\* lines 183-186
ReportMessage_Done(term, d) == IF d THEN "Success!" ELSE "Failure!"

ReportMessage(term, d) == IF term THEN "Success!" ELSE "Failure!"

\* No try/except/finally anywhere: an exception ends the process.
Uncaught_Swallowed == "report"

Uncaught == "aborted"

\* The environment's time limit (max_episode_steps of gym.make)
EnvTruncated(elapsed) == elapsed >= max_episode_steps

----------------------------------------------------------------------------
(* State after env.reset (lines 78-89) *)

ScaleOff == [phase |-> "off"]

Init ==
    /\ pc = "list_cameras"
    /\ env_elapsed = 0
    /\ env_sensors \in SensorConfigs
    /\ raw_observation = [id |-> 0, sensor_data |-> env_sensors]
    /\ camera_uids = <<>>
    /\ writers = [u \in {} |-> 0]
    /\ opened = <<>>
    /\ i = 1
    /\ step = 0
    /\ done = FALSE
    /\ terminated = FALSE      \* unbound until the first env.step returns
    /\ truncated = FALSE       \* (rewards = 0 tells that they are unbound)
    /\ rewards = 0
    /\ action = <<>>
    /\ policy_queries = 0
    /\ batch_obs = 0
    /\ query_obs = 0
    /\ first_flag = 0
    /\ printed = <<>>
    /\ failed = "none"
    /\ scale = ScaleOff

\* An exception raised at the current position.
Raise(what) ==
    /\ pc' = Uncaught
    /\ failed' = what
    /\ UNCHANGED <<env_elapsed, env_sensors, raw_observation, camera_uids,
                   writers, opened, i, step, done, terminated, truncated,
                   rewards, action, policy_queries, batch_obs, query_obs,
                   first_flag, printed, scale>>

----------------------------------------------------------------------------
(* Lines 91-98: one writer per camera of the reset observation *)

ListCameras ==
    /\ pc = "list_cameras"
    /\ camera_uids' = CameraUids(raw_observation)
    /\ i' = 1
    /\ pc' = IF Len(camera_uids') = 0 THEN "while" ELSE "open_writers"
    /\ UNCHANGED <<env_elapsed, env_sensors, raw_observation, writers, opened,
                   step, done, terminated, truncated, rewards, action,
                   policy_queries, batch_obs, query_obs, first_flag, printed,
                   failed, scale>>

OpenNextWriter ==
    /\ pc = "open_writers"
    /\ LET uid == camera_uids[i] IN
        /\ writers' = (uid :> OpenWriter(uid)) @@ writers
        /\ opened' = Append(opened, uid)
    /\ i' = IF i = Len(camera_uids) THEN 1 ELSE i + 1
    /\ pc' = IF i = Len(camera_uids) THEN "while" ELSE "open_writers"
    /\ UNCHANGED <<env_elapsed, env_sensors, raw_observation, camera_uids,
                   step, done, terminated, truncated, rewards, action,
                   policy_queries, batch_obs, query_obs, first_flag, printed,
                   failed, scale>>

----------------------------------------------------------------------------
(* Lines 103-181: the rollout loop *)

WhileTest ==
    /\ pc = "while"
    /\ pc' = IF done THEN "report" ELSE "prepare"
    /\ UNCHANGED <<env_elapsed, env_sensors, raw_observation, camera_uids,
                   writers, opened, i, step, done, terminated, truncated,
                   rewards, action, policy_queries, batch_obs, query_obs,
                   first_flag, printed, failed, scale>>

\* lines 105-151: the batch is built from raw_observation
PrepareBatch ==
    /\ pc = "prepare"
    /\ RequiredCameras \subseteq Range(raw_observation.sensor_data)
    /\ batch_obs' = raw_observation.id
    /\ pc' = "select_action"
    /\ UNCHANGED <<env_elapsed, env_sensors, raw_observation, camera_uids,
                   writers, opened, i, step, done, terminated, truncated,
                   rewards, action, policy_queries, query_obs, first_flag,
                   printed, failed, scale>>

\* lines 112-114 index the three cameras by name
PrepareKeyError ==
    /\ pc = "prepare"
    /\ ~(RequiredCameras \subseteq Range(raw_observation.sensor_data))
    /\ Raise("key_error")

\* lines 154-160
SelectAction ==
    /\ pc = "select_action"
    /\ \E out \in PolicyOutputs : action' = ScaleAction(out)
    /\ policy_queries' = policy_queries + 1
    /\ query_obs' = batch_obs
    /\ pc' = "env_step"
    /\ UNCHANGED <<env_elapsed, env_sensors, raw_observation, camera_uids,
                   writers, opened, i, step, done, terminated, truncated,
                   rewards, batch_obs, first_flag, printed, failed, scale>>

PolicyFails ==
    /\ pc = "select_action"
    /\ Raise("policy")

\* lines 167-171
EnvStep ==
    /\ pc = "env_step"
    /\ env_elapsed < max_episode_steps + StepSlack
    /\ \E term \in BOOLEAN :
        LET elapsed == env_elapsed + 1
            trunc == EnvTruncated(elapsed)
            returned == [id |-> elapsed, sensor_data |-> env_sensors]
        IN  /\ env_elapsed' = elapsed
            /\ raw_observation' = NextObservation(raw_observation, returned)
            /\ terminated' = term
            /\ truncated' = trunc
            /\ first_flag' = IF first_flag = 0 /\ (term \/ trunc)
                             THEN elapsed ELSE first_flag
    /\ rewards' = rewards + 1
    /\ i' = 1
    /\ pc' = IF Len(raw_observation'.sensor_data) = 0 THEN "update" ELSE "append"
    /\ UNCHANGED <<env_sensors, camera_uids, writers, opened, step, done,
                   action, policy_queries, batch_obs, query_obs, printed,
                   failed, scale>>

EnvStepFails ==
    /\ pc = "env_step"
    /\ Raise("env_step")

\* lines 173-176, one camera of the post-step observation
AppendFrame ==
    /\ pc = "append"
    /\ LET uid == raw_observation.sensor_data[i] IN
        IF uid \in DOMAIN writers
        THEN /\ writers' = [writers EXCEPT ![uid] = AppendData(@)]
             /\ i' = IF i = Len(raw_observation.sensor_data) THEN 1 ELSE i + 1
             /\ pc' = IF i = Len(raw_observation.sensor_data)
                      THEN "update" ELSE "append"
             /\ UNCHANGED <<env_elapsed, env_sensors, raw_observation,
                            camera_uids, opened, step, done, terminated,
                            truncated, rewards, action, policy_queries,
                            batch_obs, query_obs, first_flag, printed, failed,
                            scale>>
        ELSE Raise("key_error")

AppendFails ==
    /\ pc = "append"
    /\ Raise("append")

\* lines 180-181
UpdateDone ==
    /\ pc = "update"
    /\ done' = DoneUpdate(terminated, truncated, done)
    /\ step' = step + 1
    /\ pc' = "while"
    /\ UNCHANGED <<env_elapsed, env_sensors, raw_observation, camera_uids,
                   writers, opened, i, terminated, truncated, rewards, action,
                   policy_queries, batch_obs, query_obs, first_flag, printed,
                   failed, scale>>

----------------------------------------------------------------------------
(* Lines 183-191: teardown *)

Report ==
    /\ pc = "report"
    /\ IF rewards > 0      \* `terminated` is bound
       THEN /\ printed' = Append(printed, ReportMessage(terminated, done))
            /\ i' = 1
            /\ pc' = IF Len(opened) = 0 THEN "exited" ELSE "close"
            /\ UNCHANGED <<env_elapsed, env_sensors, raw_observation,
                           camera_uids, writers, opened, step, done,
                           terminated, truncated, rewards, action,
                           policy_queries, batch_obs, query_obs, first_flag,
                           failed, scale>>
       ELSE Raise("name_error")

\* lines 189-191: writers.items() iterates in insertion order
CloseNextWriter ==
    /\ pc = "close"
    /\ LET uid == opened[i] IN
        writers' = [writers EXCEPT ![uid] = CloseWriter(@)]
    /\ i' = IF i = Len(opened) THEN 1 ELSE i + 1
    /\ pc' = IF i = Len(opened) THEN "exited" ELSE "close"
    /\ UNCHANGED <<env_elapsed, env_sensors, raw_observation, camera_uids,
                   opened, step, done, terminated, truncated, rewards, action,
                   policy_queries, batch_obs, query_obs, first_flag, printed,
                   failed, scale>>

Next ==
    \/ ListCameras
    \/ OpenNextWriter
    \/ WhileTest
    \/ PrepareBatch
    \/ PrepareKeyError
    \/ SelectAction
    \/ PolicyFails
    \/ EnvStep
    \/ EnvStepFails
    \/ AppendFrame
    \/ AppendFails
    \/ UpdateDone
    \/ Report
    \/ CloseNextWriter

Spec == Init /\ [][Next]_vars

\* The script is sequential: whenever a statement can run, one runs.
FairSpec == Spec /\ WF_vars(Next)

----------------------------------------------------------------------------
(* The action scaling of lines 156-157 on its own: the harness draws two   *)
(* action tensors x, y of the same length (6, or 7 with a trailing         *)
(* component the scaling leaves alone) and a scalar k, applies the scaling *)
(* to x, y, x + y and k * x, and then applies it again to the result.      *)

ScaleLengths == {6, 7}

ScaleVectors(len) ==
    {Const(len, c) : c \in -MaxAct..MaxAct}
        \cup {Unit(len, m, c) : m \in 1..len, c \in -MaxAct..MaxAct}

ScaleInit ==
    /\ pc = "scale"
    /\ env_elapsed = 0
    /\ env_sensors = <<>>
    /\ raw_observation = [id |-> 0, sensor_data |-> <<>>]
    /\ camera_uids = <<>>
    /\ writers = [u \in {} |-> 0]
    /\ opened = <<>>
    /\ i = 1
    /\ step = 0
    /\ done = FALSE
    /\ terminated = FALSE
    /\ truncated = FALSE
    /\ rewards = 0
    /\ action = <<>>
    /\ policy_queries = 0
    /\ batch_obs = 0
    /\ query_obs = 0
    /\ first_flag = 0
    /\ printed = <<>>
    /\ failed = "none"
    /\ \E len \in ScaleLengths :
         \E x \in ScaleVectors(len), y \in ScaleVectors(len), k \in -MaxK..MaxK :
            scale = [phase |-> "input", x |-> x, y |-> y, k |-> k,
                     sx |-> <<>>, sy |-> <<>>, sxy |-> <<>>, skx |-> <<>>,
                     ssx |-> <<>>]

ScaleOnce ==
    /\ scale.phase = "input"
    /\ scale' = [scale EXCEPT !.phase = "scaled",
                              !.sx = ScaleAction(scale.x),
                              !.sy = ScaleAction(scale.y),
                              !.sxy = ScaleAction(VAdd(scale.x, scale.y)),
                              !.skx = ScaleAction(VMul(scale.k, scale.x))]
    /\ action' = ScaleAction(scale.x)
    /\ UNCHANGED <<pc, env_elapsed, env_sensors, raw_observation, camera_uids,
                   writers, opened, i, step, done, terminated, truncated,
                   rewards, policy_queries, batch_obs, query_obs, first_flag,
                   printed, failed>>

ScaleAgain ==
    /\ scale.phase = "scaled"
    /\ scale' = [scale EXCEPT !.phase = "rescaled",
                              !.ssx = ScaleAction(scale.sx)]
    /\ action' = ScaleAction(action)
    /\ UNCHANGED <<pc, env_elapsed, env_sensors, raw_observation, camera_uids,
                   writers, opened, i, step, done, terminated, truncated,
                   rewards, policy_queries, batch_obs, query_obs, first_flag,
                   printed, failed>>

ScaleNext == ScaleOnce \/ ScaleAgain

ScaleSpec == ScaleInit /\ [][ScaleNext]_vars

----------------------------------------------------------------------------
(* Properties *)

PreLoop == {"list_cameras", "open_writers"}
InLoop == {"while", "prepare", "select_action", "env_step", "append", "update"}
PostLoop == {"report", "close", "exited"}

C3_WritersMatchCameras ==
    /\ [](pc \notin PreLoop =>
            /\ DOMAIN writers = Range(env_sensors)
            /\ Range(opened) = Range(env_sensors)
            /\ Len(opened) = Cardinality(Range(env_sensors))
            /\ \A uid \in DOMAIN writers : writers[uid].path = VideoPath(uid))
    /\ [][pc \notin PreLoop =>
            (DOMAIN writers' = DOMAIN writers /\ opened' = opened)]_vars

C3_Witness ==
    /\ pc = "exited"
    /\ step > 0
    /\ DOMAIN writers =
          {"top_camera", "side_camera", "wrist_camera", "front_camera"}

\* C4: no frame is ever appended to a writer that is not open, every writer
\* stays open throughout the loop, each writer is closed exactly once on the
\* normal path, and no frame is appended once the loop is over.
C4_WriterLifecycle ==
    /\ [](\A uid \in DOMAIN writers :
            /\ writers[uid].late = 0
            /\ writers[uid].closes <= 1
            /\ writers[uid].open <=> (writers[uid].closes = 0)
            /\ pc \in InLoop \cup {"report"} => writers[uid].open
            /\ pc = "exited" => writers[uid].closes = 1)
    /\ [][(pc \in PostLoop) =>
            (\A uid \in DOMAIN writers :
                (writers'[uid].frames = writers[uid].frames))]_vars

C4_Witness ==
    /\ pc = "exited"
    /\ DOMAIN writers # {}
    /\ \A uid \in DOMAIN writers :
          writers[uid].frames = 2 /\ writers[uid].closes = 1

\* C5: exactly one final message is printed on a normal run; it is
\* "Success!" iff the last env.step returned terminated (also when it
\* returned truncated as well) and "Failure!" iff the loop ended by
\* truncation alone.  Nothing is printed before the loop has ended.
C5_ReportMatchesTermination ==
    /\ pc \in PreLoop \cup InLoop \cup {"report"} => printed = <<>>
    /\ pc \in {"close", "exited"} =>
          /\ Len(printed) = 1
          /\ (printed[1] = "Success!") <=> terminated
          /\ (printed[1] = "Failure!") <=> (~terminated /\ truncated)

C5_Witness ==
    /\ pc = "exited"
    /\ terminated
    /\ truncated
    /\ printed = <<"Success!">>

\* C6: the loop is left only after an env.step returned terminated or
\* truncated, at the end of the first iteration in which that happened and
\* never earlier; at least one env.step is executed; no policy query and no
\* env.step follows that iteration; done never goes back to false.
C6_ExitsOnFirstFlag ==
    /\ [](/\ pc \in PostLoop =>
                /\ step >= 1
                /\ done
                /\ terminated \/ truncated
                /\ first_flag = env_elapsed
          /\ first_flag # 0 =>
                env_elapsed = first_flag /\ policy_queries = first_flag
          /\ first_flag = 0 => ~done
          /\ pc \in {"prepare", "select_action", "env_step"} => first_flag = 0)
    /\ [][done => done']_vars

C6_Witness ==
    /\ pc = "report"
    /\ first_flag = 3
    /\ step = 3
    /\ terminated
    /\ ~truncated

\* C7: when anything raises, the script is over: no writer has been or will
\* be closed and no final message is printed; writers are closed only on
\* the normal post-loop path.
C7_NoCleanupOnFailure ==
    /\ [](/\ failed # "none" =>
                /\ pc = "aborted"
                /\ printed = <<>>
                /\ \A uid \in DOMAIN writers :
                      writers[uid].open /\ writers[uid].closes = 0
          /\ (\E uid \in DOMAIN writers : writers[uid].closes > 0) =>
                pc \in {"close", "exited"} /\ failed = "none")
    /\ [][pc # "aborted"]_vars

\* A frame append fails in the third iteration, part of the frames written.
C7_Witness ==
    /\ pc = "aborted"
    /\ failed = "append"
    /\ step = 2
    /\ \E uid \in DOMAIN writers : writers[uid].frames = 3
    /\ \E uid \in DOMAIN writers : writers[uid].frames = 2

C10_QueryThenStep ==
    /\ pc \in PreLoop =>
          policy_queries = 0 /\ env_elapsed = 0 /\ rewards = 0 /\ step = 0
    /\ pc \in {"while", "prepare", "select_action"} \cup PostLoop =>
          policy_queries = step /\ env_elapsed = step /\ rewards = step
    /\ pc \in {"prepare", "select_action", "env_step"} =>
          raw_observation.id = step
    /\ pc \in {"select_action", "env_step"} => batch_obs = step
    /\ pc = "env_step" =>
          /\ policy_queries = step + 1
          /\ env_elapsed = step
          /\ rewards = step
          /\ query_obs = step
    /\ pc \in {"append", "update"} =>
          /\ policy_queries = step + 1
          /\ env_elapsed = step + 1
          /\ rewards = step + 1
          /\ query_obs = step

C10_Witness ==
    /\ pc = "env_step"
    /\ step = 2
    /\ policy_queries = 3
    /\ query_obs = 2
    /\ env_elapsed = 2

====
